---- MODULE Spec2Model ----
(***************************************************************************)
(* A state-machine model of src/EinZinY/engine.js: the REQUEST engine      *)
(* (requestEngine, requestEngine.finalize), the dynamic TLS server         *)
(* (DynamicServer.prepare) and the CONNECT engine (connectEngine,          *)
(* connectEngine.onHandshake).  Every event handler of the source is one   *)
(* action; the events themselves (client, patcher, origin, zlib, tls.sign, *)
(* net.connect) are the environment and are chosen nondeterministically.   *)
(***************************************************************************)
EXTENDS Integers, Sequences, FiniteSets, TLC

VARIABLES
    counter,      \* uid: the closure variable `counter`
    req,          \* the REQUEST transactions, one record each
    conn,         \* the CONNECT transactions, one record each
    knownHosts,   \* DynamicServer.knownHosts (an array)
    contexts,     \* hosts given to server.addContext
    signCalls,    \* how often tls.sign was called, per host
    pendingSign,  \* tls.sign calls whose callback has not run yet
    pendingTick,  \* process.nextTick callbacks that have not run yet
    crashed       \* an error was thrown out of a handler (uncaughtException)

vars == <<counter, req, conn, knownHosts, contexts, signCalls, pendingSign,
          pendingTick, crashed>>

reqVars == <<counter, req>>
connVars == <<conn, knownHosts, contexts, signCalls, pendingSign, pendingTick>>

----------------------------------------------------------------------------
(* Bounds of the model.                                                    *)

\* REQUEST transactions run side by side in SpecIds.
NumTx == 2
\* Longest body the origin sends (before it is encoded), in bytes.
MaxPlain == 1
\* Most chunks a client request body arrives in.
MaxChunks == 1
\* CONNECT transactions run side by side in SpecPrepare.
NumConn == 2
\* Most bytes the outbound side of a CONNECT sends back.
MaxUp == 1
\* Most segments of a CONNECT target in SpecParse.
MaxSegments == 4

----------------------------------------------------------------------------
(* Sequences, header objects.                                              *)

Range(s) == {s[i] : i \in 1..Len(s)}

RECURSIVE SeqsUpTo(_, _)
SeqsUpTo(S, n) ==
    IF n = 0 THEN {<<>>}
    ELSE LET shorter == SeqsUpTo(S, n - 1)
         IN  shorter \cup {Append(s, x) : s \in {q \in shorter : Len(q) = n - 1}, x \in S}

\* A headers object: a function from the names present to their values.
NoHeaders == [k \in {} |-> ""]

HasHeader(h, k) == k \in DOMAIN h

\* h[k], or "undefined" when the object has no such property.
GetHeader(h, k) == IF k \in DOMAIN h THEN h[k] ELSE "undefined"

\* h[k] = v
SetHeader(h, k, v) == [x \in (DOMAIN h) \cup {k} |-> IF x = k THEN v ELSE h[x]]

\* delete h[k]: property names are compared exactly, letter case included.
DeleteHeader(h, k) == [x \in (DOMAIN h) \ {k} |-> h[x]]

----------------------------------------------------------------------------
(* uid                                                                     *)

\* A uid that returns counter without incrementing it.
uidNextSame(c) == c
\* uid() returns counter and then increments it: this is the value after.
uidNext(c) == c + 1

----------------------------------------------------------------------------
(* getType and isText.  A header value is a string; split(/,|;/) followed  *)
(* by trim() is tabulated for the values the model uses, and the scan over *)
(* the entries is the source's loop.                                       *)

SplitTrim(str) ==
    CASE str = "text/html; charset=utf-8" -> <<"text/html", "charset=utf-8">>
      [] str = "image/png, */*"           -> <<"image/png", "*/*">>
      [] str = "text/*, */*"              -> <<"text/*", "*/*">>
      [] OTHER                            -> <<str>>

EndsWithSlashStar(e) == e \in {"*/*", "text/*", "image/*"}
IncludesSlash(e) ==
    e \in {"*/*", "text/*", "image/*", "text/html", "text/plain", "image/png",
           "application/xml", "application/xhtml+xml", "application/json"}
IncludesStar(e) == e \in {"*/*", "text/*", "image/*"}

\* The loop of getType from entry i on, bestGuess being g ("" when unset).
RECURSIVE getTypeScan(_, _, _)
getTypeScan(parts, i, g) ==
    IF i > Len(parts) THEN g
    ELSE LET entry == parts[i] IN
         IF g = "" /\ entry = "*/*" THEN getTypeScan(parts, i + 1, entry)
         ELSE IF EndsWithSlashStar(entry) /\ (g = "" \/ g = "*/*")
              THEN getTypeScan(parts, i + 1, entry)
         ELSE IF IncludesSlash(entry) /\ ~IncludesStar(entry) THEN entry
         ELSE getTypeScan(parts, i + 1, g)

\* getType(str = "", def = "text/html", noWildcard)
getType(str, def, noWildcard) ==
    LET s == IF str = "undefined" THEN "" ELSE str
        d == IF def = "undefined" THEN "text/html" ELSE def
        bestGuess == getTypeScan(SplitTrim(s), 1, "")
    IN  IF bestGuess = "" \/ (noWildcard /\ IncludesStar(bestGuess)) THEN d
        ELSE bestGuess

isText(mimeType) ==
    IF mimeType \in {"", "undefined"} THEN FALSE
    ELSE \/ mimeType \in {"text/html", "text/plain", "text/*"}       \* startsWith("text/")
         \/ mimeType = "application/xhtml+xml"                       \* endsWith("/xhtml+xml")
         \/ mimeType = "application/xml"                             \* endsWith("/xml")

----------------------------------------------------------------------------
(* Bodies.  A Buffer is a sequence of bytes; "a" is an ASCII byte, the     *)
(* other bytes are the binary framing a compressed stream has.  A string   *)
(* is a sequence of characters; "e2" is a character of two UTF-8 bytes and *)
(* "fffd" the replacement character (three bytes) that Buffer.toString()   *)
(* gives for a byte that is not valid UTF-8.                               *)

AsciiBytes == {"a"}
BinaryBytes == {"GZ", "ZL", "BR", "RAW", "TR"}

\* Buffer.toString(): UTF-8 decoding.
toString(buf) == [i \in 1..Len(buf) |-> IF buf[i] \in AsciiBytes THEN buf[i] ELSE "fffd"]

Utf8Width(ch) == CASE ch = "e2" -> 2 [] ch = "fffd" -> 3 [] OTHER -> 1

RECURSIVE byteLength(_)
\* Buffer.byteLength(x): the bytes of a Buffer, the UTF-8 bytes of a string.
byteLength(x) == IF x = <<>> THEN 0 ELSE Utf8Width(Head(x)) + byteLength(Tail(x))

\* What the origin puts on the wire for a body under a content coding.
Encode(format, plain) ==
    CASE format = "gzip" -> <<"GZ">> \o plain \o <<"TR">>
      [] format = "zlib" -> <<"ZL">> \o plain \o <<"TR">>
      [] format = "raw"  -> <<"RAW">> \o plain \o <<"TR">>
      [] format = "br"   -> <<"BR">> \o plain \o <<"TR">>
      [] OTHER           -> plain

\* zlib.unzip: gzip and zlib-wrapped deflate are recognised by their header;
\* anything else, and a stream cut short, is an error.
unzipOk(data) ==
    /\ Len(data) >= 2
    /\ data[1] \in {"GZ", "ZL"}
    /\ data[Len(data)] = "TR"

unzipResult(data) == SubSeq(data, 2, Len(data) - 1)

\* String.prototype.toLowerCase on the Content-Encoding values.
toLowerCase(s) ==
    CASE s = "GZIP" -> "gzip"
      [] s = "Deflate" -> "deflate"
      [] OTHER -> s

----------------------------------------------------------------------------
(* url.parse, on the request URLs the model uses.                          *)

UrlProtocol(u) ==
    CASE u = "http://example.test/" -> "http:"
      [] u = "https://mirror.test/" -> "https:"
      [] OTHER -> "null"

\* !localReq.url || localReq.url[0] === "/"
NoHostGiven(u) == u = "" \/ u = "/index.html"

----------------------------------------------------------------------------
(* REQUEST transactions.                                                   *)

\* The decision object a request patcher completes with.
Decision(result, headers, location, text) ==
    [result |-> result, headers |-> headers, redirectLocation |-> location,
     redirectText |-> text]

\* One transaction: the locals of requestEngine's closures, the calls made on
\* localRes, the calls made to the patcher, and what the origin still holds.
NewReq ==
    [ st            |-> "new",       \* where the handlers' chain stands
      url           |-> "",          \* localReq.url
      sent          |-> NoHeaders,   \* the headers as the client sent them
      headers       |-> NoHeaders,   \* the object localReq.headers
      protocol      |-> "null",      \* options.protocol
      payload       |-> <<>>,        \* payload
      id            |-> -1,          \* id
      clientErr     |-> FALSE,       \* localReq emitted "error"
      clientAborted |-> FALSE,       \* localReq emitted "aborted"
      nOnRequest    |-> 0,           \* calls of global.onRequest
      decision      |-> Decision("none", NoHeaders, "null", <<>>),
                                     \* decision, once the request patcher completed
      nOnText       |-> 0,           \* calls of global.onTextResponse
      nOnOther      |-> 0,           \* calls of global.onOtherResponse
      hookId        |-> <<>>,        \* the id given to each patcher call
      handed        |-> <<>>,        \* the body given to the response patcher
      issued        |-> FALSE,       \* http(s).request was called
      upHeaders     |-> NoHeaders,   \* the headers of the upstream request
      upProtocol    |-> "null",      \* the protocol of the upstream request
      abortListener |-> FALSE,       \* localReq.on("aborted") is registered
      upAbort       |-> FALSE,       \* request.abort() was called
      reqErr        |-> FALSE,       \* request emitted "error"
      resErr        |-> FALSE,       \* remoteRes emitted "error"
      resAborted    |-> FALSE,       \* remoteRes emitted "aborted"
      resHeaders    |-> NoHeaders,   \* the object remoteRes.headers
      plain         |-> <<>>,        \* the origin's body before its encoding
      wire          |-> <<>>,        \* bytes the origin has yet to deliver
      data          |-> <<>>,        \* data, then responseData
      ops           |-> <<>>,        \* the calls made on localRes, in order
      outStatus     |-> "none",      \* the status code given to writeHead
      outHeaders    |-> NoHeaders,   \* the headers given to writeHead
      outBody       |-> <<>> ]       \* the body given to write

Outcomes(r) == {i \in 1..Len(r.ops) : r.ops[i] \in {"end", "destroy"}}
Ended(r) == "end" \in Range(r.ops)
Destroyed(r) == "destroy" \in Range(r.ops)

\* localRes.destroy()
destroy(r) == [r EXCEPT !.ops = Append(@, "destroy")]

\* localRes.writeHead(..., h); localRes.write(body); localRes.end()
respond(r, h, body) ==
    [r EXCEPT !.ops = @ \o <<"writeHead", "write", "end">>,
              !.outHeaders = h, !.outBody = body]

\* The Empty case without its return (line 127): the reply, then http.request.
respondEmptyNoReturn(r, h) ==
    [r EXCEPT !.ops = @ \o <<"writeHead", "end">>, !.outHeaders = h,
              !.issued = TRUE]
\* localRes.writeHead(..., h); localRes.end()
respondEmpty(r, h) ==
    [r EXCEPT !.ops = @ \o <<"writeHead", "end">>, !.outHeaders = h]

\* The client's socket still carries events for localReq.
ClientOpen(r) == ~Destroyed(r) /\ ~Ended(r) /\ ~r.clientErr /\ ~r.clientAborted

\* options.headers, had line 91 copied the headers as they were then.
optionsHeadersCopy(r) == r.sent
\* options.headers = localReq.headers: the same object, not a copy.
optionsHeaders(r) == r.headers

\* requestEngine up to the registration of the handlers (lines 77-103).
requestEngine(t, u, h) ==
    /\ ~crashed
    /\ req[t].st = "new"
    /\ LET r == [req[t] EXCEPT !.url = u, !.sent = h, !.headers = h,
                               !.protocol = UrlProtocol(u)]
       IN  req' = [req EXCEPT ![t] =
                     IF NoHostGiven(u) THEN [destroy(r) EXCEPT !.st = "invalid"]
                     ELSE [r EXCEPT !.st = "body"]]
    /\ UNCHANGED <<counter, connVars, crashed>>

\* localReq.on("data")
localReq_data(t, chunk) ==
    /\ ~crashed
    /\ req[t].st = "body"
    /\ ClientOpen(req[t])
    /\ Len(req[t].payload) < MaxChunks
    /\ req' = [req EXCEPT ![t].payload = Append(@, chunk)]
    /\ UNCHANGED <<counter, connVars, crashed>>

\* localReq.on("end"): const id = uid(); global.onRequest(...)
localReq_end(t) ==
    /\ ~crashed
    /\ req[t].st = "body"
    /\ ClientOpen(req[t])
    /\ req' = [req EXCEPT ![t] =
                 [@ EXCEPT !.st = "onRequest", !.id = counter,
                           !.nOnRequest = @ + 1,
                           !.hookId = Append(@, counter)]]
    /\ counter' = uidNext(counter)
    /\ UNCHANGED <<connVars, crashed>>

\* localReq.on("error")
localReq_error(t) ==
    /\ ~crashed
    /\ req[t].st \notin {"new", "invalid"}
    /\ ~req[t].clientErr
    /\ ~Destroyed(req[t]) /\ ~Ended(req[t])
    /\ req' = [req EXCEPT ![t] = [destroy(@) EXCEPT !.clientErr = TRUE]]
    /\ UNCHANGED <<counter, connVars, crashed>>

\* localReq emits "aborted": the listener of line 207, when it is registered.
localReq_aborted(t) ==
    /\ ~crashed
    /\ req[t].st \notin {"new", "invalid"}
    /\ ~req[t].clientAborted
    /\ ~Ended(req[t])
    /\ req' = [req EXCEPT ![t] =
                 [@ EXCEPT !.clientAborted = TRUE,
                           !.upAbort = @ \/ req[t].abortListener]]
    /\ UNCHANGED <<counter, connVars, crashed>>

\* The default header set of a synthesized reply (lines 122-125, 134-137).
defaultHeaders(r) ==
    [k \in {"Content-Type", "Server"} |->
        IF k = "Server" THEN "Apache/2.4.7 (Ubuntu)"
        ELSE getType(GetHeader(r.headers, "accept"), "undefined", TRUE)]

\* http.request(options, ...); request.write(payload); request.end();
\* localReq.on("aborted", ...)  (lines 150, 204-207)
issue(r, protocol) ==
    [r EXCEPT !.st = "upstream", !.issued = TRUE, !.upProtocol = protocol,
              !.upHeaders = optionsHeaders(r), !.abortListener = TRUE]

\* The callback given to global.onRequest (lines 114-208).
onRequest_callback(t, decision) ==
    /\ ~crashed
    /\ req[t].st = "onRequest"
    /\ LET r == [req[t] EXCEPT
                   !.headers = SetHeader(@, "accept-encoding", "gzip, deflate"),
                   !.decision = decision]
           h == IF decision.headers = NoHeaders THEN defaultHeaders(r)
                ELSE decision.headers
       IN  req' = [req EXCEPT ![t] =
             CASE decision.result = "Allow" -> issue(r, r.protocol)
               [] decision.result = "Empty" ->
                    [respondEmpty(r, h) EXCEPT !.st = "done", !.outStatus = "200"]
               [] decision.result = "Deny" -> [destroy(r) EXCEPT !.st = "done"]
               [] decision.result = "Redirect" ->
                    IF decision.redirectLocation = "null"
                    THEN [respond(r, h, decision.redirectText)
                            EXCEPT !.st = "done", !.outStatus = "200"]
                    ELSE issue(r, UrlProtocol(decision.redirectLocation))]
    /\ UNCHANGED <<counter, connVars, crashed>>

\* remoteRes.headers as the HTTP parser delivers them: lower-cased names.
incomingHeaders(resp) ==
    [k \in {x \in {"content-type"} : resp.ct # "undefined"}
           \cup {x \in {"content-encoding"} : resp.ce # "undefined"}
           \cup {x \in {"public-key-pins"} : resp.pkp} |->
        CASE k = "content-type" -> resp.ct
          [] k = "content-encoding" -> resp.ce
          [] OTHER -> "pin-sha256"]

\* The callback given to http.request: the origin's response has arrived.
request_response(t, resp) ==
    /\ ~crashed
    /\ req[t].st = "upstream"
    /\ ~req[t].reqErr /\ ~req[t].upAbort
    /\ req' = [req EXCEPT ![t] =
                 [@ EXCEPT !.st = "remote",
                           !.resHeaders = incomingHeaders(resp),
                           !.plain = resp.plain,
                           !.wire = Encode(resp.format, resp.plain)]]
    /\ UNCHANGED <<counter, connVars, crashed>>

\* request.on("error"): a connect failure, a socket error, or the error an
\* aborted request ends with.
request_error(t) ==
    /\ ~crashed
    /\ req[t].st \in {"upstream", "remote"}
    /\ ~req[t].reqErr
    /\ req' = [req EXCEPT ![t] = [destroy(@) EXCEPT !.reqErr = TRUE]]
    /\ UNCHANGED <<counter, connVars, crashed>>

\* remoteRes.on("data")
remoteRes_data(t) ==
    /\ ~crashed
    /\ req[t].st = "remote"
    /\ req[t].wire # <<>>
    /\ ~req[t].reqErr /\ ~req[t].upAbort /\ ~req[t].resErr /\ ~req[t].resAborted
    /\ req' = [req EXCEPT ![t] =
                 [@ EXCEPT !.data = Append(@, Head(req[t].wire)),
                           !.wire = Tail(@)]]
    /\ UNCHANGED <<counter, connVars, crashed>>

\* remoteRes.on("error")
remoteRes_error(t) ==
    /\ ~crashed
    /\ req[t].st = "remote"
    /\ ~req[t].resErr
    /\ req' = [req EXCEPT ![t] = [destroy(@) EXCEPT !.resErr = TRUE]]
    /\ UNCHANGED <<counter, connVars, crashed>>

\* remoteRes.on("aborted")
remoteRes_aborted(t) ==
    /\ ~crashed
    /\ req[t].st = "remote"
    /\ ~req[t].resAborted
    /\ req' = [req EXCEPT ![t] = [destroy(@) EXCEPT !.resAborted = TRUE]]
    /\ UNCHANGED <<counter, connVars, crashed>>

\* responseData.length: characters of a string, not its bytes.
contentLengthChars(responseData) == Len(responseData)
\* Buffer.byteLength(responseData), as onDone writes it to content-length.
contentLength(responseData) == byteLength(responseData)

\* The patcher hook finalize calls, by its isText argument.
hookOf(isTextArg) == IF isTextArg THEN {"onTextResponse"} ELSE {"onOtherResponse"}

\* requestEngine.finalize up to its call of the patcher (lines 226, 237-247).
finalize(r, isTextArg, responseData) ==
    [r EXCEPT !.st = "resHook",
              !.data = responseData,
              !.handed = IF isTextArg THEN toString(responseData) ELSE responseData,
              !.nOnText = @ + (IF "onTextResponse" \in hookOf(isTextArg) THEN 1 ELSE 0),
              !.nOnOther = @ + (IF "onOtherResponse" \in hookOf(isTextArg) THEN 1 ELSE 0),
              !.hookId = @ \o [i \in 1..Cardinality(hookOf(isTextArg)) |-> r.id]]

\* The encodings the end handler hands to zlib.unzip.
needsUnzip(encoding) == encoding = "gzip" \/ encoding = "deflate"

\* remoteRes.on("end") (lines 156-188).  The event comes when the body is
\* complete, and also after "aborted": the runtime closes an aborted response
\* stream with push(null), so "end" follows with the body cut short.
remoteRes_end(t) ==
    /\ ~crashed
    /\ req[t].st = "remote"
    /\ ~req[t].resErr
    /\ \/ req[t].wire = <<>> /\ ~req[t].reqErr /\ ~req[t].upAbort
       \/ req[t].resAborted
    /\ LET r == req[t]
           text == isText(getType(GetHeader(r.resHeaders, "content-type"),
                                  "undefined", FALSE))
           encoding == toLowerCase(GetHeader(r.resHeaders, "content-encoding"))
           r2 == [r EXCEPT !.resHeaders = SetHeader(@, "content-encoding", "identity")]
       IN  req' = [req EXCEPT ![t] =
             IF text
             THEN IF needsUnzip(encoding)
                  THEN [r2 EXCEPT !.st = "unzip"]
                  ELSE finalize(r2, TRUE, r.data)
             ELSE finalize(r, FALSE, r.data)]
    /\ UNCHANGED <<counter, connVars, crashed>>

\* The callback given to zlib.unzip (lines 171-179).
unzip_callback(t) ==
    /\ ~crashed
    /\ req[t].st = "unzip"
    /\ req' = [req EXCEPT ![t] =
                 IF unzipOk(req[t].data)
                 THEN finalize(req[t], TRUE, unzipResult(req[t].data))
                 ELSE [destroy(req[t]) EXCEPT !.st = "done"]]
    /\ UNCHANGED <<counter, connVars, crashed>>

\* onDone of requestEngine.finalize (lines 227-236).
onDone(r, responseData) ==
    LET h1 == SetHeader(r.resHeaders, "content-length", contentLength(responseData))
        h2 == DeleteHeader(h1, "Public-Key-Pins")
    IN  [respond([r EXCEPT !.resHeaders = h2], h2, responseData)
           EXCEPT !.st = "done", !.data = responseData,
                  !.outStatus = "remoteRes.statusCode"]

\* The callback given to global.onTextResponse / global.onOtherResponse.
finalize_callback(t, patchedData) ==
    /\ ~crashed
    /\ req[t].st = "resHook"
    /\ req' = [req EXCEPT ![t] = onDone(req[t], patchedData)]
    /\ UNCHANGED <<counter, connVars, crashed>>

----------------------------------------------------------------------------
(* The inputs of the REQUEST engine.                                       *)

Urls == {"http://example.test/", "/index.html", ""}

ClientHeaders ==
    { NoHeaders,
      "accept-encoding" :> "br",
      ("accept" :> "image/png, */*") @@ ("accept-encoding" :> "gzip, deflate, br") }

PayloadChunks == {<<"a">>}

CustomHeaders == "X-Patched" :> "1"

\* The decisions requestEngine accepts from global.onRequest; on any other
\* the callback throws (line 147).
RequestDecisions ==
    { Decision("Allow", NoHeaders, "null", <<>>),
      Decision("Deny", NoHeaders, "null", <<>>),
      Decision("Empty", NoHeaders, "null", <<>>),
      Decision("Empty", CustomHeaders, "null", <<>>),
      Decision("Redirect", NoHeaders, "null", <<"a">>),
      Decision("Redirect", NoHeaders, "https://mirror.test/", <<>>) }

ContentTypes == {"undefined", "text/html; charset=utf-8", "image/png"}
ContentEncodings == {"undefined", "identity", "gzip", "GZIP", "deflate", "br"}

\* The stream formats an origin sends under a Content-Encoding: "deflate" is
\* sent zlib-wrapped by some origins and raw by others.
FormatsOf(ce) ==
    CASE toLowerCase(ce) = "gzip" -> {"gzip"}
      [] toLowerCase(ce) = "deflate" -> {"zlib", "raw"}
      [] toLowerCase(ce) = "br" -> {"br"}
      [] OTHER -> {"identity"}

Responses ==
    UNION { { [ct |-> ct, ce |-> ce, pkp |-> pkp, format |-> f, plain |-> b] :
                ct \in ContentTypes, pkp \in BOOLEAN, f \in FormatsOf(ce),
                b \in SeqsUpTo(AsciiBytes, MaxPlain) } : ce \in ContentEncodings }

\* What the response patcher may return: its input, or a body of its own.
PatchedBodies(r) == {r.handed, <<"a", "e2">>}

----------------------------------------------------------------------------
(* CONNECT target parsing.  A target is the array localReq.url.split(":")  *)
(* gives: a sequence of segments, each a sequence of characters.           *)

Digits == {"0", "1", "2", "3", "4", "5", "6", "7", "8", "9"}

DigitValue(ch) ==
    CASE ch = "0" -> 0 [] ch = "1" -> 1 [] ch = "2" -> 2 [] ch = "3" -> 3
      [] ch = "4" -> 4 [] ch = "5" -> 5 [] ch = "6" -> 6 [] ch = "7" -> 7
      [] ch = "8" -> 8 [] OTHER -> 9

\* isInteger.test(seg): /^\d+$/
isInteger(seg) == Len(seg) >= 1 /\ \A i \in 1..Len(seg) : seg[i] \in Digits

RECURSIVE parseInt(_)
parseInt(seg) ==
    IF seg = <<>> THEN 0
    ELSE 10 * parseInt(SubSeq(seg, 1, Len(seg) - 1)) + DigitValue(seg[Len(seg)])

\* The port connectEngine takes from the target (lines 335-342).
targetPort(parts) ==
    IF isInteger(parts[Len(parts)])
    THEN LET port == parseInt(parts[Len(parts)])
         IN  IF port < 0 \/ port > 65535 THEN 443 ELSE port
    ELSE 443

\* parts.join(":") after the pop, kept as the segments joined (line 344).
targetHost(parts) ==
    IF isInteger(parts[Len(parts)]) THEN SubSeq(parts, 1, Len(parts) - 1)
    ELSE parts

----------------------------------------------------------------------------
(* The dynamic server and CONNECT transactions.                            *)

\* this.port of DynamicServer, and the port exports.start listens on.
DynamicPort == 12346
MainPort == 12345

NewConn ==
    [ st         |-> "new",      \* where the handlers' chain stands
      url        |-> <<>>,       \* localReq.url.split(":")
      host       |-> <<>>,       \* host
      port       |-> 0,          \* port
      headers    |-> NoHeaders,  \* localReq.headers
      id         |-> -1,         \* id
      nOnConnect |-> 0,          \* calls of global.onConnect
      decision   |-> "none",     \* decision.result, once the patcher completed
      localHead  |-> <<>>,       \* localHead as connectEngine was given it
      head       |-> <<>>,       \* localHead, then data of the handler closure
      nHandshake |-> 0,          \* calls of connectEngine.onHandshake
      unsent     |-> <<>>,       \* bytes the client has yet to send
      clientSent |-> <<>>,       \* every byte the client sent after the request
      sockBuf    |-> <<>>,       \* chunks read from the client, not yet emitted
      flowing    |-> TRUE,       \* localSocket is not paused
      once       |-> FALSE,      \* the once("data") listener is registered
      piped      |-> FALSE,      \* localSocket.pipe(connection) and back
      destroyed  |-> FALSE,      \* localSocket.destroy() was called
      sockErr    |-> FALSE,      \* localSocket emitted "error"
      outErr     |-> FALSE,      \* the outbound connection emitted "error"
      outDestroyed |-> FALSE,    \* connection.destroy() was called: by no handler
      prepared   |-> "none",     \* how prepare answered: "tick" or "sign"
      nCallback  |-> 0,          \* runs of the callback given to prepare
      target     |-> 0,          \* the port net.connect was called with, 0: none
      targetHost |-> <<>>,       \* the host net.connect was called with
      outbound   |-> <<>>,       \* bytes written to the outbound connection
      upSent     |-> 0,          \* bytes the outbound side has sent back
      toClient   |-> <<>> ]      \* what was written to localSocket, in order

\* No process.nextTick callback is waiting and the process is alive: the
\* event loop takes the next event.
Idle == ~crashed /\ pendingTick = <<>>

\* A test that takes every host for known.
knownHostsIncludesAlways(host) == TRUE
\* A test that takes no host for known.
knownHostsIncludesNever(host) == FALSE
\* this.knownHosts.includes(host)
knownHostsIncludes(host) == host \in Range(knownHosts)

\* A net.connect that goes to the main proxy port whatever it is given.
netConnectMain(r, port, host) ==
    [r EXCEPT !.st = "connecting", !.target = MainPort, !.targetHost = <<>>]
\* net.connect(port, [host,] listener) on behalf of c.
netConnect(r, port, host) ==
    [r EXCEPT !.st = "connecting", !.target = port, !.targetHost = host]

\* The callback connectEngine.onHandshake gives to prepare (lines 426-440).
prepareCallback(r) ==
    [netConnect(r, DynamicPort, <<>>) EXCEPT !.nCallback = @ + 1]

\* A TLS test that takes the third byte up to 0x04 only.
isTLSUpTo4(firstBytes) == firstBytes[1] = 22 /\ firstBytes[2] = 3 /\ firstBytes[3] < 5
\* The TLS test of onHandshake (line 424).
isTLS(firstBytes) == firstBytes[1] = 22 /\ firstBytes[2] = 3 /\ firstBytes[3] < 6

\* connectEngine.onHandshake(localReq, localSocket, localHead, host, port) for
\* c, whose record is r, with DynamicServer.prepare up to its return.
onHandshake(c, r) ==
    IF isTLS(r.head)
    THEN /\ conn' = [conn EXCEPT ![c] =
                  [r EXCEPT !.st = "prepare", !.nHandshake = @ + 1,
                            !.prepared = IF knownHostsIncludes(r.host)
                                         THEN "tick" ELSE "sign"]]
         /\ IF knownHostsIncludes(r.host)
            THEN /\ pendingTick' = Append(pendingTick, c)
                 /\ UNCHANGED <<signCalls, pendingSign>>
            ELSE /\ signCalls' = [signCalls EXCEPT ![r.host] = @ + 1]
                 /\ pendingSign' = pendingSign \cup {[host |-> r.host, c |-> c]}
                 /\ UNCHANGED pendingTick
    ELSE /\ conn' = [conn EXCEPT ![c] =
                  [netConnect(r, MainPort, <<>>) EXCEPT !.nHandshake = @ + 1]]
         /\ UNCHANGED <<signCalls, pendingSign, pendingTick>>

\* connectEngine up to its call of global.onConnect (lines 331-348).
connectEngine(c, parts, h, stream, k) ==
    /\ Idle
    /\ conn[c].st = "new"
    /\ conn' = [conn EXCEPT ![c] =
                  [@ EXCEPT !.st = "onConnect",
                            !.url = parts,
                            !.host = targetHost(parts),
                            !.port = targetPort(parts),
                            !.headers = h,
                            !.localHead = SubSeq(stream, 1, k),
                            !.head = SubSeq(stream, 1, k),
                            !.clientSent = SubSeq(stream, 1, k),
                            !.unsent = SubSeq(stream, k + 1, Len(stream)),
                            !.flowing = FALSE,
                            !.id = counter,
                            !.nOnConnect = @ + 1]]
    /\ counter' = uidNext(counter)
    /\ UNCHANGED <<req, knownHosts, contexts, signCalls, pendingSign,
                   pendingTick, crashed>>

\* The client sends its next n bytes; the socket reads them as one chunk.
client_send(c, n) ==
    /\ Idle
    /\ conn[c].st # "new"
    /\ ~conn[c].destroyed
    /\ n <= Len(conn[c].unsent)
    /\ conn' = [conn EXCEPT ![c] =
                  [@ EXCEPT !.sockBuf = Append(@, SubSeq(conn[c].unsent, 1, n)),
                            !.clientSent = @ \o SubSeq(conn[c].unsent, 1, n),
                            !.unsent = SubSeq(@, n + 1, Len(@))]]
    /\ UNCHANGED <<reqVars, knownHosts, contexts, signCalls, pendingSign,
                   pendingTick, crashed>>

\* The 200 reply of the short-head branch (lines 392-400).
established(r) ==
    <<"200 Connection Established">>
    \o (IF GetHeader(r.headers, "connection") = "keep-alive"
        THEN <<"Connection: keep-alive">> ELSE <<>>)
    \o (IF GetHeader(r.headers, "proxy-connection") = "keep-alive"
        THEN <<"Proxy-Connection: keep-alive">> ELSE <<>>)
    \o <<"CRLF">>

\* The callback given to global.onConnect (lines 348-404).
onConnect_callback(c, decision) ==
    /\ Idle
    /\ conn[c].st = "onConnect"
    /\ LET r == [conn[c] EXCEPT !.decision = decision] IN
       CASE decision = "Deny" ->
              /\ conn' = [conn EXCEPT ![c] = [r EXCEPT !.st = "denied", !.destroyed = TRUE]]
              /\ UNCHANGED <<signCalls, pendingSign, pendingTick>>
         [] decision = "Pipe" ->
              /\ conn' = [conn EXCEPT ![c] = netConnect(r, r.port, r.host)]
              /\ UNCHANGED <<signCalls, pendingSign, pendingTick>>
         [] decision = "Allow" ->
              IF Len(r.head) >= 3
              THEN onHandshake(c, r)
              ELSE /\ conn' = [conn EXCEPT ![c] =
                         [r EXCEPT !.st = "accumulate", !.once = TRUE,
                                   !.toClient = @ \o established(r),
                                   !.flowing = TRUE]]
                   /\ UNCHANGED <<signCalls, pendingSign, pendingTick>>
    /\ UNCHANGED <<reqVars, knownHosts, contexts, crashed>>

\* A test that asks for a fourth byte.
tooShortBelow4(data) == Len(data) < 4
\* data.length < 3 (line 380)
tooShort(data) == Len(data) < 3

\* The once("data") listener of the short-head branch (lines 378-386).
handler_data(c) ==
    /\ Idle
    /\ conn[c].once /\ conn[c].flowing /\ ~conn[c].destroyed
    /\ conn[c].sockBuf # <<>>
    /\ LET r == [conn[c] EXCEPT !.head = @ \o Head(conn[c].sockBuf),
                                !.sockBuf = Tail(@)]
       IN  IF tooShort(r.head)
           THEN /\ conn' = [conn EXCEPT ![c] = r]
                /\ UNCHANGED <<signCalls, pendingSign, pendingTick>>
           ELSE onHandshake(c, [r EXCEPT !.once = FALSE, !.flowing = FALSE])
    /\ UNCHANGED <<reqVars, knownHosts, contexts, crashed>>

\* The callback given to tls.sign by prepare (lines 301-305).
sign_callback(p) ==
    /\ Idle
    /\ p \in pendingSign
    /\ pendingSign' = pendingSign \ {p}
    /\ knownHosts' = Append(knownHosts, p.host)
    /\ contexts' = [contexts EXCEPT ![p.host] = @ + 1]
    /\ conn' = [conn EXCEPT ![p.c] = prepareCallback(@)]
    /\ UNCHANGED <<reqVars, signCalls, pendingTick, crashed>>

\* The process.nextTick callback of prepare (lines 297-299).
nextTick_callback ==
    /\ ~crashed
    /\ pendingTick # <<>>
    /\ pendingTick' = Tail(pendingTick)
    /\ conn' = [conn EXCEPT ![Head(pendingTick)] = prepareCallback(@)]
    /\ UNCHANGED <<reqVars, knownHosts, contexts, signCalls, pendingSign, crashed>>

\* The listener given to net.connect: the outbound connection is open
\* (lines 357-365, 427-435, 443-451).
connect_listener(c) ==
    /\ Idle
    /\ conn[c].st = "connecting"
    /\ conn' = [conn EXCEPT ![c] =
                  [@ EXCEPT !.st = "spliced", !.piped = TRUE,
                            !.outbound = @ \o conn[c].head,
                            !.flowing = TRUE]]
    /\ UNCHANGED <<reqVars, knownHosts, contexts, signCalls, pendingSign,
                   pendingTick, crashed>>

\* A client socket that flows with no listener writing to the outbound: the
\* chunk is emitted and gone.
pipe_dataLost(c) ==
    /\ Idle
    /\ conn[c].piped /\ conn[c].flowing /\ ~conn[c].destroyed
    /\ conn[c].sockBuf # <<>>
    /\ conn' = [conn EXCEPT ![c].sockBuf = Tail(@)]
    /\ UNCHANGED <<reqVars, knownHosts, contexts, signCalls, pendingSign,
                   pendingTick, crashed>>

\* localSocket.pipe(connection): a chunk of the client goes to the outbound.
pipe_data(c) ==
    /\ Idle
    /\ conn[c].piped /\ conn[c].flowing /\ ~conn[c].destroyed
    /\ conn[c].sockBuf # <<>>
    /\ conn' = [conn EXCEPT ![c] =
                  [@ EXCEPT !.outbound = @ \o Head(conn[c].sockBuf),
                            !.sockBuf = Tail(@)]]
    /\ UNCHANGED <<reqVars, knownHosts, contexts, signCalls, pendingSign,
                   pendingTick, crashed>>

\* connection.pipe(localSocket): a byte of the outbound goes to the client.
pipe_back(c) ==
    /\ Idle
    /\ conn[c].piped /\ ~conn[c].destroyed
    /\ conn[c].upSent < MaxUp
    /\ conn' = [conn EXCEPT ![c] =
                  [@ EXCEPT !.upSent = @ + 1,
                            !.toClient = Append(@, "upstream byte")]]
    /\ UNCHANGED <<reqVars, knownHosts, contexts, signCalls, pendingSign,
                   pendingTick, crashed>>

\* The outbound connection emits "error": the listeners of lines 436-439 and
\* 452-455 throw, and the Pipe branch registers none, which throws as well.
connection_error(c) ==
    /\ Idle
    /\ conn[c].st \in {"connecting", "spliced"}
    /\ conn' = [conn EXCEPT ![c].outErr = TRUE]
    /\ crashed' = TRUE
    /\ UNCHANGED <<reqVars, knownHosts, contexts, signCalls, pendingSign,
                   pendingTick>>

\* localSocket emits "error" while it is read.  connectEngine registers no
\* listener.  Where the HTTP server's own listener is still on the socket it
\* emits clientError, whose handler destroys the socket (lines 492-495);
\* where the server took it off with the CONNECT, the error is thrown.
localSocket_error(c, handled) ==
    /\ Idle
    /\ conn[c].st # "new"
    /\ conn[c].flowing /\ ~conn[c].destroyed /\ ~conn[c].sockErr
    /\ conn' = [conn EXCEPT ![c] =
                  [@ EXCEPT !.sockErr = TRUE, !.destroyed = handled]]
    /\ crashed' = ~handled
    /\ UNCHANGED <<reqVars, knownHosts, contexts, signCalls, pendingSign,
                   pendingTick>>

----------------------------------------------------------------------------
(* Specifications.                                                         *)

InitReq(T) ==
    /\ counter = 0
    /\ req = [t \in T |-> NewReq]
    /\ crashed = FALSE

\* Every step of the REQUEST transaction t.
RequestStep(t, urls, headers, decisions, responses) ==
    \/ \E u \in urls, h \in headers : requestEngine(t, u, h)
    \/ \E chunk \in PayloadChunks : localReq_data(t, chunk)
    \/ localReq_end(t)
    \/ localReq_error(t)
    \/ localReq_aborted(t)
    \/ \E decision \in decisions : onRequest_callback(t, decision)
    \/ \E resp \in responses : request_response(t, resp)
    \/ request_error(t)
    \/ remoteRes_data(t)
    \/ remoteRes_end(t)
    \/ remoteRes_error(t)
    \/ remoteRes_aborted(t)
    \/ unzip_callback(t)
    \/ \E patchedData \in PatchedBodies(req[t]) : finalize_callback(t, patchedData)

\* The dynamic server after the hosts of `known` were prepared, one by one.
InitConn(C, targets, known) ==
    /\ conn = [c \in C |-> NewConn]
    /\ knownHosts \in known
    /\ contexts = [h \in {targetHost(u) : u \in targets} |->
                     IF h \in Range(knownHosts) THEN 1 ELSE 0]
    /\ signCalls = contexts
    /\ pendingSign = {}
    /\ pendingTick = <<>>

Init == InitReq({1}) /\ InitConn({}, {}, {<<>>})

Next == RequestStep(1, Urls, ClientHeaders, RequestDecisions, Responses)

\* One REQUEST transaction, with every input the model has.
Spec == Init /\ [][Next]_vars

\* The events of the origin and of zlib for the REQUEST transaction t.
UpstreamStep(t, responses) ==
    \/ \E resp \in responses : request_response(t, resp)
    \/ request_error(t)
    \/ remoteRes_data(t)
    \/ remoteRes_end(t)
    \/ remoteRes_error(t)
    \/ remoteRes_aborted(t)
    \/ unzip_callback(t)

\* The completions of the patcher for the REQUEST transaction t.
PatcherStep(t, decisions) ==
    \/ \E decision \in decisions : onRequest_callback(t, decision)
    \/ \E patchedData \in PatchedBodies(req[t]) : finalize_callback(t, patchedData)

\* The steps of the REQUEST transaction t that call uid or the patcher, and
\* the events that lead from one to the next.  The events left out (errors
\* and aborts) call localRes.destroy or request.abort only.
HookStep(t, decisions, responses) ==
    \/ requestEngine(t, "http://example.test/", NoHeaders)
    \/ localReq_end(t)
    \/ \E decision \in decisions : onRequest_callback(t, decision)
    \/ \E resp \in responses : request_response(t, resp)
    \/ remoteRes_data(t)
    \/ remoteRes_end(t)
    \/ unzip_callback(t)
    \/ finalize_callback(t, req[t].handed)

\* The inputs of SpecIds: a valid request, allowed or denied, and a gzip text
\* response or a binary one.
IdsDecisions ==
    { Decision("Allow", NoHeaders, "null", <<>>),
      Decision("Deny", NoHeaders, "null", <<>>) }

IdsResponses ==
    { [ct |-> "text/html; charset=utf-8", ce |-> "gzip", pkp |-> FALSE,
       format |-> "gzip", plain |-> <<>>],
      [ct |-> "image/png", ce |-> "undefined", pkp |-> FALSE,
       format |-> "identity", plain |-> <<>>] }


NextFair ==
    RequestStep(1, {"http://example.test/"}, {NoHeaders}, RequestDecisions,
                IdsResponses)

\* One REQUEST transaction with a valid URL, under fairness: the client ends
\* its request body unless it disconnects first, the patcher completes every
\* call, and the origin and zlib answer.  The client is free to disconnect or
\* not, at any time.
SpecFair ==
    /\ Init /\ [][NextFair]_vars
    /\ WF_vars(requestEngine(1, "http://example.test/", NoHeaders))
    /\ WF_vars(localReq_end(1))
    /\ WF_vars(PatcherStep(1, RequestDecisions))
    /\ WF_vars(UpstreamStep(1, IdsResponses))

----------------------------------------------------------------------------
(* The inputs of the CONNECT engine.                                       *)

ConnectTargets ==
    { << <<"a">>, <<"4", "4", "3">> >>,     \* a:443
      << <<"a">>, <<"2", "2">> >>,          \* a:22
      << <<"b">> >> }                       \* b

ConnectHeaders ==
    { NoHeaders,
      "proxy-connection" :> "keep-alive",
      ("connection" :> "keep-alive") @@ ("proxy-connection" :> "keep-alive") }

\* What a client sends after its CONNECT request: TLS records of several
\* versions, a cleartext request, and a client that stops after two bytes.
ClientStreams ==
    { <<22, 3, 1, 9>>, <<22, 3, 5, 9>>, <<22, 3, 6, 9>>, <<71, 69, 84, 32>>,
      <<22, 3>> }

ChunkSizes == {1, 2, 3}

\* The decisions connectEngine accepts from global.onConnect; on any other
\* the callback throws (line 368).
ConnectDecisions == {"Allow", "Deny", "Pipe"}

\* The steps of the CONNECT transaction c up to its splice, but the callbacks
\* of prepare and the errors of the client socket; the client sends a head
\* of one of the lengths `heads`.
DispatchStep(c, targets, headers, streams, heads, decisions) ==
    \/ \E u \in targets, h \in headers, s \in streams :
         \E k \in heads \cap (0..Len(s)) : connectEngine(c, u, h, s, k)
    \/ \E n \in ChunkSizes : client_send(c, n)
    \/ \E d \in decisions : onConnect_callback(c, d)
    \/ handler_data(c)
    \/ connect_listener(c)
    \/ connection_error(c)

\* The steps of the CONNECT transaction c once it is spliced.
SplicedStep(c) ==
    \/ pipe_data(c)
    \/ pipe_back(c)

PrepareStep ==
    \/ \E p \in pendingSign : sign_callback(p)
    \/ nextTick_callback

\* The dynamic server has prepared no host yet, or host a for an earlier
\* transaction.
InitConnect ==
    InitReq({}) /\ InitConn({1}, ConnectTargets, {<<>>, << << <<"a">> >> >>})

NextConnect ==
    \/ DispatchStep(1, ConnectTargets, ConnectHeaders, ClientStreams, 0..4,
                    ConnectDecisions)
    \/ SplicedStep(1)
    \/ \E handled \in BOOLEAN : localSocket_error(1, handled)
    \/ PrepareStep

\* One CONNECT transaction, with every input the model has.
SpecConnect == InitConnect /\ [][NextConnect]_vars

NextIntercept ==
    \/ DispatchStep(1, ConnectTargets, ConnectHeaders, ClientStreams, 0..4,
                    {"Allow", "Deny"})
    \/ SplicedStep(1)
    \/ \E handled \in BOOLEAN : localSocket_error(1, handled)
    \/ PrepareStep

\* One CONNECT transaction that the patcher lets the core intercept or deny:
\* SpecConnect without the decision Pipe.
SpecIntercept == InitConnect /\ [][NextIntercept]_vars

TlsTargets == { << <<"a">>, <<"4", "4", "3">> >>, << <<"b">> >> }

InitIds == InitReq(1..NumTx) /\ InitConn({1}, TlsTargets, {<<>>})

NextIds ==
    \/ \E t \in 1..NumTx : HookStep(t, IdsDecisions, IdsResponses)
    \/ connectEngine(1, << <<"b">> >>, NoHeaders, <<>>, 0)
    \/ onConnect_callback(1, "Deny")

\* Several REQUEST transactions and a CONNECT side by side, sharing uid: the
\* steps that take an id or call the patcher.
SpecIds == InitIds /\ [][NextIds]_vars

\* The inputs of SpecPrepare: TLS clients of two hosts.
TlsStreams == { <<22, 3, 1>> }

InitPrepare == InitReq({}) /\ InitConn(1..NumConn, TlsTargets, {<<>>})

NextPrepare ==
    \/ \E c \in 1..NumConn :
         DispatchStep(c, TlsTargets, {NoHeaders}, TlsStreams, 2..3, {"Allow"})
    \/ PrepareStep

\* Several CONNECT transactions of TLS clients, sharing the dynamic server,
\* up to their splice: the head is whole or one byte short.
SpecPrepare == InitPrepare /\ [][NextPrepare]_vars

\* The segments of the targets of SpecParse: empty, a name, the pieces of a
\* bracketed IPv6 literal, ports at both ends of the range, numbers beyond
\* it, and digits followed by a letter.
ParseSegments ==
    { <<>>, <<"a">>, <<"[">>, <<"1", "]">>, <<"0">>, <<"4", "4", "3">>,
      <<"6", "5", "5", "3", "5">>, <<"6", "5", "5", "3", "6">>, <<"8", "a">> }

ParseTargets == SeqsUpTo(ParseSegments, MaxSegments) \ {<<>>}

InitParse == InitReq({}) /\ InitConn({1}, {}, {<<>>})

NextParse ==
    /\ conn[1].st = "new"
    /\ \E u \in ParseTargets : connectEngine(1, u, NoHeaders, <<>>, 0)

\* The target parsing of connectEngine, on every target of ParseTargets.
SpecParse == InitParse /\ [][NextParse]_vars

----------------------------------------------------------------------------
(* Claims.                                                                 *)

\* A response of the origin was forwarded to the client by onDone.
Forwarded(r) == r.issued /\ r.st = "done" /\ "write" \in Range(r.ops)

\* C1: every REQUEST transaction sees exactly one of the outcomes
\* localRes.end() and localRes.destroy(): never more than one call of the
\* two, and one call once no step of the transaction is left to take.
C1_ExactlyOneOutcome ==
    \A t \in DOMAIN req :
        /\ Cardinality(Outcomes(req[t])) <= 1
        /\ (req[t].st # "new" /\ ~ENABLED Next) => Cardinality(Outcomes(req[t])) = 1

\* C2: tls.sign is called at most once for every host, however the calls of
\* prepare and the completions of tls.sign interleave.
C2_SignAtMostOnce == \A h \in DOMAIN signCalls : signCalls[h] <= 1

\* C3: on every CONNECT transaction, whatever reaches the client from the
\* outbound connection comes after the 200 Connection Established reply.
C3_EstablishedBeforeUpstream ==
    \A c \in DOMAIN conn :
        \A i \in 1..Len(conn[c].toClient) :
            conn[c].toClient[i] = "upstream byte" =>
                \E j \in 1..(i - 1) : conn[c].toClient[j] = "200 Connection Established"

\* C4: when the loopback connection to the dynamic TLS port is opened for a
\* CONNECT to host H, H is in knownHosts and its context is installed.
C4_KnownBeforeDynamicConnect ==
    \A c \in DOMAIN conn :
        conn[c].target = DynamicPort =>
            /\ conn[c].host \in Range(knownHosts)
            /\ contexts[conn[c].host] >= 1

\* C4 happens: two CONNECT transactions to one host both have their loopback
\* connection to the dynamic TLS port.
C4_Witness ==
    \E c, d \in DOMAIN conn :
        /\ c # d
        /\ conn[c].host = conn[d].host
        /\ conn[c].target = DynamicPort /\ conn[d].target = DynamicPort

\* C5: knownHosts is append-only, no host is in it twice and no host's
\* context is installed twice.
C5_AppendOnlyNoDuplicates ==
    /\ [](/\ \A i, j \in 1..Len(knownHosts) : knownHosts[i] = knownHosts[j] => i = j
          /\ \A h \in DOMAIN contexts : contexts[h] <= 1)
    /\ [][/\ Len(knownHosts') >= Len(knownHosts)
          /\ SubSeq(knownHosts', 1, Len(knownHosts)) = knownHosts]_vars

\* The ids the transactions hold.
IdsTaken ==
    {<<"request", t>> : t \in {x \in DOMAIN req : req[x].id # -1}}
    \cup {<<"connect", c>> : c \in {x \in DOMAIN conn : conn[x].id # -1}}

IdOf(x) == IF x[1] = "request" THEN req[x[2]].id ELSE conn[x[2]].id

\* C6: every patcher hook is called at most once per transaction and with the
\* transaction's own id, which no other transaction has; at most one of
\* onTextResponse and onOtherResponse is called; and no hook is called for a
\* transaction after its final patcher completion.
C6_HooksAtMostOnce ==
    /\ [](/\ \A t \in DOMAIN req :
               /\ req[t].nOnRequest <= 1
               /\ req[t].nOnText + req[t].nOnOther <= 1
               /\ \A i \in 1..Len(req[t].hookId) : req[t].hookId[i] = req[t].id
          /\ \A c \in DOMAIN conn : conn[c].nOnConnect <= 1
          /\ \A x, y \in IdsTaken : IdOf(x) = IdOf(y) => x = y)
    /\ [][/\ \A t \in DOMAIN req :
               req[t].st = "done" =>
                   /\ req'[t].nOnRequest = req[t].nOnRequest
                   /\ req'[t].nOnText = req[t].nOnText
                   /\ req'[t].nOnOther = req[t].nOnOther
          /\ \A c \in DOMAIN conn :
               conn[c].st \notin {"new", "onConnect"} =>
                   conn'[c].nOnConnect = conn[c].nOnConnect]_vars

\* C6 happens: two REQUEST transactions are done, one after onTextResponse
\* and one after onOtherResponse, and a CONNECT transaction after onConnect.
C6_Witness ==
    /\ \E t, u \in DOMAIN req :
         /\ req[t].st = "done" /\ req[t].nOnRequest = 1 /\ req[t].nOnText = 1
         /\ req[u].st = "done" /\ req[u].nOnRequest = 1 /\ req[u].nOnOther = 1
    /\ \E c \in DOMAIN conn : conn[c].st = "denied" /\ conn[c].nOnConnect = 1

\* C7: the headers of a forwarded response hold no Public-Key-Pins header,
\* in whatever letter case.
C7_NoPublicKeyPins ==
    \A t \in DOMAIN req :
        Forwarded(req[t]) =>
            DOMAIN req[t].outHeaders \cap {"Public-Key-Pins", "public-key-pins"} = {}

\* C8: the Content-Length of a forwarded response is the byte length of the
\* body written, which is the body the response patcher returned.
C8_ContentLengthOfWritten ==
    \A t \in DOMAIN req :
        Forwarded(req[t]) =>
            /\ HasHeader(req[t].outHeaders, "content-length")
            /\ req[t].outHeaders["content-length"] = byteLength(req[t].outBody)
            /\ req[t].outBody = req[t].data

\* C8 happens: a forwarded body with a character of two bytes.
C8_Witness ==
    \E t \in DOMAIN req :
        /\ Forwarded(req[t])
        /\ req[t].outBody = <<"a", "e2">>
        /\ req[t].outHeaders["content-length"] = 3
        /\ req[t].plain = <<"a">>

\* C9: when the response is text-classified and arrived whole, the text
\* handed to onTextResponse is the origin's body with its content coding
\* taken off, whatever the Content-Encoding.
C9_TextHandedDecompressed ==
    \A t \in DOMAIN req :
        (req[t].nOnText >= 1 /\ ~req[t].resAborted) =>
            req[t].handed = toString(req[t].plain)

\* C10: every upstream request carries Accept-Encoding: gzip, deflate.
C10_AcceptEncoding ==
    \A t \in DOMAIN req :
        req[t].issued =>
            GetHeader(req[t].upHeaders, "accept-encoding") = "gzip, deflate"

\* C10 happens: an upstream request, redirected to a location, of a client
\* that sent Accept-Encoding: br.
C10_Witness ==
    \E t \in DOMAIN req :
        /\ req[t].issued
        /\ req[t].upProtocol = "https:"
        /\ GetHeader(req[t].sent, "accept-encoding") = "br"

\* The request patcher's decision sends the request on to an origin.
ContactsOrigin(d) ==
    d.result = "Allow" \/ (d.result = "Redirect" /\ d.redirectLocation # "null")

\* The last n calls made on localRes.
LastOps(r, n) == SubSeq(r.ops, Len(r.ops) - n + 1, Len(r.ops))

\* C11: an upstream request is issued and a response patcher hook is called
\* only under Allow or Redirect with a location; under Deny nothing is written
\* to the client, the response is destroyed and no upstream request is made;
\* under Empty and Redirect with a null location a 200 reply is written and
\* ended and no upstream request is made.
C11_DecisionDeterminesUpstream ==
    \A t \in DOMAIN req :
        LET r == req[t]
            d == r.decision
            h == IF d.headers = NoHeaders THEN defaultHeaders(r) ELSE d.headers
        IN  /\ (r.issued \/ r.nOnText + r.nOnOther > 0) => ContactsOrigin(d)
            /\ d.result = "Deny" =>
                  /\ ~r.issued
                  /\ Destroyed(r)
                  /\ Range(r.ops) \cap {"writeHead", "write"} = {}
            /\ d.result = "Empty" =>
                  /\ ~r.issued
                  /\ Len(r.ops) >= 2 /\ LastOps(r, 2) = <<"writeHead", "end">>
                  /\ "write" \notin Range(r.ops)
                  /\ r.outStatus = "200" /\ r.outHeaders = h
            /\ (d.result = "Redirect" /\ d.redirectLocation = "null") =>
                  /\ ~r.issued
                  /\ Len(r.ops) >= 3 /\ LastOps(r, 3) = <<"writeHead", "write", "end">>
                  /\ r.outStatus = "200" /\ r.outHeaders = h
                  /\ r.outBody = d.redirectText

\* C11 happens: an Empty decision without headers was answered with the
\* default header set, for a client that accepts image/png.
C11_Witness ==
    \E t \in DOMAIN req :
        /\ req[t].decision.result = "Empty"
        /\ req[t].decision.headers = NoHeaders
        /\ req[t].st = "done"
        /\ req[t].outHeaders["Content-Type"] = "image/png"

\* The CONNECT transaction was handed to onHandshake.
Dispatched(r) == r.decision = "Allow" /\ r.st \in {"prepare", "connecting", "spliced"}

\* C12: an allowed CONNECT whose head has at least 3 bytes goes to the dynamic
\* TLS port, after prepare, exactly when the head starts 0x16 0x03 and a third
\* byte below 0x06, and to the main proxy port in every other case.
C12_TlsClassification ==
    \A c \in DOMAIN conn :
        LET r == conn[c]
            tls == r.head[1] = 22 /\ r.head[2] = 3 /\ r.head[3] \in 0..5
        IN  Dispatched(r) =>
              /\ Len(r.head) >= 3
              /\ tls => /\ r.target \in {0, DynamicPort}
                        /\ r.target = 0 <=> r.st = "prepare"
              /\ ~tls => r.target = MainPort

\* C12 happens: a head with third byte 0x05 given with the CONNECT request
\* is on its way to the dynamic TLS port.
C12_Witness ==
    \E c \in DOMAIN conn :
        /\ Dispatched(conn[c])
        /\ conn[c].head = <<22, 3, 5>>
        /\ conn[c].target = DynamicPort

\* C13: once the client has aborted, no upstream request of the transaction
\* is left in flight: none was issued, or request.abort() was called on it.
C13_ClientAbortAbortsUpstream ==
    \A t \in DOMAIN req :
        (req[t].clientAborted /\ req[t].issued) => req[t].upAbort

\* The upstream request or the upstream response of r failed.
UpstreamFailed(r) == r.reqErr \/ r.resErr \/ r.resAborted

\* C14: when the upstream request or response has failed, the client response
\* is destroyed, no response patcher hook is called and no response is
\* forwarded.
C14_UpstreamFailureDestroys ==
    \A t \in DOMAIN req :
        UpstreamFailed(req[t]) =>
            /\ Destroyed(req[t])
            /\ req[t].nOnText + req[t].nOnOther = 0
            /\ Range(req[t].ops) \cap {"writeHead", "write", "end"} = {}

\* C15: on a CONNECT with decision Pipe, an error of the client socket or of
\* the outbound connection, a failure to connect included, destroys both
\* sockets.
C15_PipeErrorDestroysBoth ==
    \A c \in DOMAIN conn :
        (conn[c].decision = "Pipe" /\ (conn[c].outErr \/ conn[c].sockErr)) =>
            conn[c].destroyed /\ conn[c].outDestroyed

\* C16: an error of the loopback connection of an allowed CONNECT destroys
\* that transaction's client socket and leaves the process running, so that
\* every other transaction goes on and none ends with neither a reply nor
\* its client socket destroyed.
C16_LoopbackErrorRecovered ==
    \A c \in DOMAIN conn :
        (conn[c].decision = "Allow" /\ conn[c].outErr) =>
            /\ conn[c].destroyed
            /\ ~crashed
            /\ \A d \in DOMAIN conn :
                 (conn[d].st # "new" /\ ~ENABLED NextPrepare) =>
                     conn[d].destroyed \/ conn[d].toClient # <<>>

\* How often c is in the queue q.
CountIn(q, c) == Cardinality({i \in 1..Len(q) : q[i] = c})

\* C17: a prepare(H) with H in knownHosts does not call tls.sign and runs its
\* callback exactly once, from process.nextTick and not inside prepare; once
\* a CONNECT to H is on its way to the dynamic port tls.sign is not called for
\* H again, so a CONNECT that starts after that leaves H signed exactly once.
C17_KnownHostNoSign ==
    /\ [](\A c \in DOMAIN conn :
            /\ conn[c].nCallback <= 1
            /\ conn[c].prepared = "tick" =>
                  /\ CountIn(pendingTick, c) + conn[c].nCallback = 1
                  /\ conn[c].nCallback = 1 <=> conn[c].target = DynamicPort
            /\ (/\ conn[c].target = DynamicPort
                /\ \A d \in DOMAIN conn \ {c} : conn[d].st = "new") =>
                  signCalls[conn[c].host] = 1)
    /\ [][/\ \A c \in DOMAIN conn :
               (/\ conn[c].prepared = "none" /\ conn'[c].prepared # "none"
                /\ conn[c].host \in Range(knownHosts)) =>
                   /\ conn'[c].prepared = "tick"
                   /\ signCalls' = signCalls
                   /\ conn'[c].nCallback = 0 /\ conn'[c].target = 0
          /\ \A h \in DOMAIN signCalls :
               (\E c \in DOMAIN conn :
                    conn[c].host = h /\ conn[c].target = DynamicPort) =>
                   signCalls'[h] = signCalls[h]]_vars

\* C17 happens: two CONNECT transactions to one host are both on their way to
\* the dynamic port, the second by process.nextTick, after one tls.sign.
C17_Witness ==
    \E c, d \in DOMAIN conn :
        /\ c # d
        /\ conn[c].host = conn[d].host
        /\ conn[c].prepared = "sign" /\ conn[d].prepared = "tick"
        /\ conn[c].target = DynamicPort /\ conn[d].target = DynamicPort
        /\ conn[d].nCallback = 1
        /\ signCalls[conn[c].host] = 1

\* How often x is in the sequence s.
Occurrences(s, x) == Cardinality({i \in 1..Len(s) : s[i] = x})

\* The CONNECT transaction was allowed with a head of fewer than 3 bytes.
ShortHead(r) == r.decision = "Allow" /\ Len(r.localHead) < 3

\* C18: on an allowed CONNECT with a head of fewer than 3 bytes the 200 reply
\* is written exactly once, the socket is resumed, the client's chunks are
\* added to the head while it has fewer than 3 bytes, and then the socket is
\* paused and the head is classified, once and only with 3 bytes or more.
C18_AccumulateThenClassifyOnce ==
    /\ [](\A c \in DOMAIN conn :
            LET r == conn[c] IN
            ShortHead(r) =>
              /\ Occurrences(r.toClient, "200 Connection Established") = 1
              /\ SubSeq(r.toClient, 1, Len(established(r))) = established(r)
              /\ r.nHandshake <= 1
              /\ r.nHandshake = 0 <=> r.st = "accumulate"
              /\ r.st = "accumulate" => Len(r.head) < 3 /\ r.once /\ r.flowing
              /\ r.nHandshake = 1 =>
                    /\ Len(r.head) >= 3 /\ ~r.once
                    /\ r.head = SubSeq(r.clientSent, 1, Len(r.head))
              /\ r.st \in {"prepare", "connecting"} => ~r.flowing)
    /\ [][\A c \in DOMAIN conn :
             conn'[c].nHandshake > conn[c].nHandshake =>
                 /\ Len(conn'[c].head) >= 3
                 /\ ShortHead(conn[c]) =>
                       Len(conn[c].head) < 3 /\ ~conn'[c].flowing]_vars

\* C18 happens: a head of one byte grew by a chunk of one byte and a chunk
\* of two, and was then classified.
C18_Witness ==
    \E c \in DOMAIN conn :
        /\ ShortHead(conn[c])
        /\ conn[c].localHead = <<22>>
        /\ conn[c].head = <<22, 3, 6, 9>>
        /\ conn[c].nHandshake = 1
        /\ conn[c].target = MainPort

\* C19: under Deny the client socket is destroyed, no outbound connection is
\* opened and no 200 is written; under Pipe the outbound connection goes to
\* the requested host and port and nowhere else, no 200 is written, and the
\* client socket stays paused until the outbound connection is spliced.
C19_DecisionDeterminesOutbound ==
    \A c \in DOMAIN conn :
        LET r == conn[c] IN
        /\ r.decision = "Deny" =>
              /\ r.destroyed
              /\ r.target = 0 /\ r.nHandshake = 0 /\ ~r.piped
              /\ r.toClient = <<>>
        /\ r.decision = "Pipe" =>
              /\ r.target = r.port /\ r.targetHost = r.host
              /\ r.nHandshake = 0 /\ r.prepared = "none"
              /\ Occurrences(r.toClient, "200 Connection Established") = 0
              /\ r.flowing => r.piped /\ r.st = "spliced"

\* C19 happens: a CONNECT a:22 under Pipe is spliced to a:22, the head was
\* sent on and the client socket is resumed.
C19_Witness ==
    \E c \in DOMAIN conn :
        /\ conn[c].decision = "Pipe"
        /\ conn[c].st = "spliced" /\ conn[c].flowing
        /\ conn[c].target = 22 /\ conn[c].targetHost = << <<"a">> >>
        /\ conn[c].localHead = <<71, 69, 84>>
        /\ conn[c].outbound = conn[c].clientSent

\* C20: the last segment of a CONNECT target is taken off as the port exactly
\* when it is all digits with a value in 0..65535; otherwise the port is 443
\* and no segment is taken off; the host is the segments that remain.
C20_TargetParsing ==
    \A c \in DOMAIN conn :
        LET r == conn[c]
            last == r.url[Len(r.url)]
            consumed == isInteger(last) /\ parseInt(last) \in 0..65535
        IN  r.st # "new" =>
              IF consumed
              THEN r.port = parseInt(last)
                   /\ r.host = SubSeq(r.url, 1, Len(r.url) - 1)
              ELSE r.port = 443 /\ r.host = r.url

RECURSIVE BufferConcat(_)
\* Buffer.concat(chunks)
BufferConcat(chunks) ==
    IF chunks = <<>> THEN <<>> ELSE Head(chunks) \o BufferConcat(Tail(chunks))

\* C21: on a CONNECT no byte of the client is lost or duplicated.  Until the
\* splice the head held and the chunks not yet emitted are what the client
\* sent; from the splice on, what the outbound connection was given and the
\* chunks not yet emitted are what the client sent, in order.  The socket does
\* not flow before the splice except while a short head is accumulated.
C21_NoByteLostOrDuplicated ==
    \A c \in DOMAIN conn :
        LET r == conn[c] IN
        r.st # "new" =>
          /\ IF r.piped
             THEN r.outbound \o BufferConcat(r.sockBuf) = r.clientSent
             ELSE /\ r.outbound = <<>>
                  /\ r.head \o BufferConcat(r.sockBuf) = r.clientSent
          /\ r.st \in {"onConnect", "prepare", "connecting"} => ~r.flowing
          /\ (r.flowing /\ ~r.piped) => r.st = "accumulate"

\* C21 happens: a TLS client sent one byte with its CONNECT, two in a chunk
\* that completed the head, and one while the socket was paused; all four
\* reached the dynamic port's connection.
C21_Witness ==
    \E c \in DOMAIN conn :
        /\ conn[c].localHead = <<22>>
        /\ conn[c].head = <<22, 3, 1>>
        /\ conn[c].target = DynamicPort /\ conn[c].piped
        /\ conn[c].outbound = <<22, 3, 1, 9>>

\* C22: once localRes.destroy() was called, writeHead, write and end are not
\* called on that response any more.
C22_NothingWrittenAfterDestroy ==
    \A t \in DOMAIN req :
        \A i, j \in 1..Len(req[t].ops) :
            (i < j /\ req[t].ops[i] = "destroy") =>
                req[t].ops[j] \notin {"writeHead", "write", "end"}

\* C23: under fairness every REQUEST transaction that passed the URL
\* validation is closed in the end: its response is ended or destroyed.
C23_EventuallyClosed ==
    \A t \in {1} :
        (req[t].st = "body") ~> (Ended(req[t]) \/ Destroyed(req[t]))

====
